---- MODULE Spec2Model ----
(***************************************************************************)
(* A model of rest_live/consumers.py: the SubscriptionConsumer of          *)
(* django-rest-live.  One consumer instance serves one websocket           *)
(* connection.  Its handlers (connect, receive_json, notify) run one at a  *)
(* time per connection and are cut here at their await points; handlers of *)
(* different connections, the record store and the change producer         *)
(* interleave freely.  Spec is the system, FairSpec the system with each   *)
(* consumer scheduled fairly, NameSpec get_group_name called on its own.   *)
(***************************************************************************)
EXTENDS Integers, Sequences, FiniteSets, TLC

(* ------------------------------ bounds --------------------------------- *)

\* Inputs over the whole run: client frames handled on all connections
\* plus change events published.
MaxInputs == 4

(* --------------------------- the environment --------------------------- *)

Conns == {"c1", "c2"}

\* The principal found in each connection's scope.
ScopeUser(c) == IF c = "c1" THEN "alice" ELSE "bob"

NoUser == "unset"

\* Primary keys of the records of app.Order.
PKs == {1}

\* A record of the store is its owner field; Missing is a deleted row and
\* NoOwner a row whose owner is NULL.
Missing == "missing"
NoOwner == "nobody"
Owners == {"alice", NoOwner}

(* JSON / Python values, tagged by type. *)
JNull == [tag |-> "null"]
JStr(s) == [tag |-> "str", s |-> s]
JInt(i) == [tag |-> "int", i |-> i]

Digit(d) == CASE d = 0 -> "0" [] d = 1 -> "1" [] d = 2 -> "2" [] d = 3 -> "3"
              [] d = 4 -> "4" [] d = 5 -> "5" [] d = 6 -> "6" [] d = 7 -> "7"
              [] d = 8 -> "8" [] d = 9 -> "9"

RECURSIVE NatStr(_)
NatStr(n) == IF n < 10 THEN Digit(n) ELSE NatStr(n \div 10) \o Digit(n % 10)

\* What an f-string makes of a value: str(None) is "None", a str is itself.
PyStr(v) == CASE v.tag = "null" -> "None"
              [] v.tag = "str" -> v.s
              [] v.tag = "int" -> IF v.i < 0 THEN "-" \o NatStr(0 - v.i) ELSE NatStr(v.i)

(* --------------------------- group addressing -------------------------- *)

GetGroupName(model_label, value, key_prop) ==
    "RESOURCE-" \o PyStr(model_label) \o "-" \o PyStr(key_prop) \o "-" \o PyStr(value)

(* ------------------------------ registry ------------------------------- *)

\* The authorization checks the registry holds.  CheckNone is the absent
\* check; IsOwner compares the record's owner with the principal;
\* OwnerNamed dereferences the owner and faults when the owner is NULL.
CheckNone == "None"
IsOwner == "is_owner"
OwnerNamed == "owner_named"

\* The checks registered for one (model, group key): a list of
\* (serializer, check), indexed by rank.
OrderListeners ==
    << <<"OrderSerializer", IsOwner>>,
       <<"OrderSerializer", CheckNone>>,
       <<"OrderSerializer", OwnerNamed>> >>

\* The tables __model_to_listeners may hold in the process that runs the
\* consumers (model label -> group key -> list): the one the producer
\* publishes for, one that lacks the group key, one that lacks the model.
ListenerTables ==
    { [m \in {"app.Order"} |-> [k \in {"id"} |-> OrderListeners]],
      [m \in {"app.Order"} |-> [k \in {"owner_id"} |-> OrderListeners]],
      [m \in {"app.Invoice"} |-> [k \in {"id"} |-> OrderListeners]] }

\* The outcome of a call: the exception it raised ("none": it returned)
\* and the value it returned.
Returned(v) == [exc |-> "none", val |-> v]
Raised(e) == [exc |-> e, val |-> CheckNone]

\* table[model_label][group_key][rank]: a dict miss raises KeyError, a
\* list index out of range raises IndexError (ranks are non-negative here;
\* index r is the (r+1)-th element).
GetPermissions(table, model_label, group_key, rank) ==
    IF model_label \notin DOMAIN table THEN Raised("KeyError")
    ELSE IF group_key \notin DOMAIN table[model_label] THEN Raised("KeyError")
    ELSE IF rank + 1 > Len(table[model_label][group_key]) THEN Raised("IndexError")
    ELSE Returned(table[model_label][group_key][rank + 1][2])

\* check(user, instance), instance being the record's owner field.
CallCheck(check, u, instance) ==
    CASE check = IsOwner -> Returned(instance = u)
      [] check = OwnerNamed ->
            IF instance = NoOwner THEN Raised("AttributeError") ELSE Returned(instance = u)

\* A does_have_permission that returns the negation of the check's answer.
DoesHavePermissionNegated(u, model_label, instance_pk, check, db) ==
    IF db[instance_pk] = Missing THEN [exc |-> "DoesNotExist", val |-> FALSE]
    ELSE LET r == CallCheck(check, u, db[instance_pk])
         IN  [exc |-> r.exc, val |-> (r.exc = "none" /\ ~r.val)]

\* does_have_permission: fetch the instance by primary key from the store
\* as it is now (db), then call the check on it.
DoesHavePermission(u, model_label, instance_pk, check, db) ==
    IF db[instance_pk] = Missing THEN [exc |-> "DoesNotExist", val |-> FALSE]
    ELSE LET r == CallCheck(check, u, db[instance_pk])
         IN  [exc |-> r.exc, val |-> (r.exc = "none" /\ r.val)]

(* ------------------------------- state --------------------------------- *)

VARIABLES
    state,      \* per connection: "new", "open", "closed", or "failed" (a
                \* handler raised)
    user,       \* self.user
    groups,     \* self.groups, a list of group names
    members,    \* the channel layer's groups: pairs <<group name, connection>>
    inbox,      \* channel-layer messages waiting for the connection's notify
    pc,         \* where the running handler is suspended, or "idle"
    group_name, \* receive_json's local, while the handler is suspended
    event,      \* notify's argument, while the handler is suspended
    outbox,     \* what send_json has sent to the client, in order
    diag,       \* what the latest handler call has printed, in order
    escaped,    \* the exception that left a handler, or "none"
    store,      \* the record store: primary key -> owner, or Missing
    received,   \* client frames handled so far
    published,  \* change events published so far
    listeners,  \* __model_to_listeners, filled before the consumers start
    probe       \* arguments and results of get_group_name called on its own

vars == <<state, user, groups, members, inbox, pc, group_name, event,
          outbox, diag, escaped, store, received, published, listeners, probe>>

\* The frames a client sends: every field may be absent (null).
Contents ==
    { [model |-> m, property |-> p, value |-> v, unsubscribe |-> u] :
        m \in {JNull, JStr("app.Order")},
        p \in {JNull, JStr("id")},
        v \in {JNull, JInt(1)},
        u \in BOOLEAN }

\* The frames the model lets a client send: those that lack at most one
\* of the three fields.
Frames ==
    { f \in Contents : Cardinality({k \in {"model", "property", "value"} : f[k] = JNull}) <= 1 }

\* The (model label, group key, rank) triples a published event carries:
\* the ranks of the registered list and the first rank past its end.
EventKeys == { <<"app.Order", "id", r>> : r \in 0..Len(OrderListeners) }

\* The message the change producer hands to the channel layer.  The
\* payload is the record as serialized when it changed; rev numbers the
\* changes.
MakeEvent(m, k, r, pk, owner, rev) ==
    [ type |-> "notify",
      content |-> [model |-> m, id |-> pk, owner |-> owner, rev |-> rev],
      group_key |-> k,
      instance_pk |-> pk,
      rank |-> r ]

NoEvent == MakeEvent("", "", 0, 0, "", 0)

\* No call of get_group_name on its own.
NoProbe == [a |-> <<>>, b |-> <<>>, names |-> <<>>]

Init ==
    /\ state = [c \in Conns |-> "new"]
    /\ user = [c \in Conns |-> NoUser]
    /\ groups = [c \in Conns |-> <<>>]
    /\ members = {}
    /\ inbox = [c \in Conns |-> <<>>]
    /\ pc = [c \in Conns |-> "idle"]
    /\ group_name = [c \in Conns |-> ""]
    /\ event = [c \in Conns |-> NoEvent]
    /\ outbox = [c \in Conns |-> <<>>]
    /\ diag = [c \in Conns |-> <<>>]
    /\ escaped = [c \in Conns |-> "none"]
    /\ store \in [PKs -> Owners]
    /\ received = 0
    /\ published = 0
    /\ listeners \in ListenerTables
    /\ probe = NoProbe

(* ------------------------- list and layer helpers ---------------------- *)

Count(l, g) == Cardinality({i \in DOMAIN l : l[i] = g})

InList(l, g) == \E i \in DOMAIN l : l[i] = g

\* An append that leaves a list alone when it already holds the element.
ListAppendOnce(l, g) == IF \E i \in DOMAIN l : l[i] = g THEN l ELSE Append(l, g)

\* list.append
ListAppend(l, g) == Append(l, g)

\* A remove that takes every occurrence out.
ListRemoveAll(l, g) == SelectSeq(l, LAMBDA x : x # g)

\* list.remove of a present element: the first occurrence goes.
ListRemove(l, g) ==
    LET i == CHOOSE j \in DOMAIN l : l[j] = g /\ \A h \in 1..(j - 1) : l[h] # g
    IN  SubSeq(l, 1, i - 1) \o SubSeq(l, i + 1, Len(l))

\* channel_layer.group_add / group_discard / group_send: a group is a set
\* of channels.
\* A group_add that drops a channel it finds in the group already.
GroupAddToggle(layer, g, ch) ==
    IF <<g, ch>> \in layer THEN layer \ {<<g, ch>>} ELSE layer \cup {<<g, ch>>}

GroupAdd(layer, g, ch) == layer \cup {<<g, ch>>}

\* A group_discard that leaves the group as it is.
GroupDiscardNone(layer, g, ch) == layer

\* A group_discard that empties the group.
GroupDiscardAll(layer, g, ch) == {m \in layer : m[1] # g}

GroupDiscard(layer, g, ch) == layer \ {<<g, ch>>}

\* The fabric memberships of connection b.
MembershipsOf(layer, b) == {m \in layer : m[2] = b}

GroupChannels(layer, g) == {ch \in Conns : <<g, ch>> \in layer}

(* ------------------------------ connect -------------------------------- *)

Connect(c) ==
    /\ state[c] = "new"
    /\ user' = [user EXCEPT ![c] = ScopeUser(c)]
    /\ state' = [state EXCEPT ![c] = "open"]
    /\ UNCHANGED <<groups, members, inbox, pc, group_name, event,
                   outbox, diag, escaped, store, received, published, listeners, probe>>

(* ------------------------------- dispatch ------------------------------ *)

\* A consumer that takes its next message while a handler is suspended.
HandlerFreeAlways(c) == TRUE

\* A consumer takes its next message when the handler before it has
\* returned: receive_json and notify await their calls inline.
HandlerFree(c) == pc[c] = "idle"

(* ------------------------------ disconnect ----------------------------- *)

\* The groups a list names, taken out of the layer for one channel.
DiscardEach(layer, l, ch) == {m \in layer : ~(m[2] = ch /\ InList(l, m[1]))}

\* The transport closes between two handlers: the consumer discards its
\* channel from every group in self.groups and stops; its instance is
\* dropped with it.
Disconnect(c) ==
    /\ state[c] = "open"
    /\ HandlerFree(c)
    /\ members' = DiscardEach(members, groups[c], c)
    /\ state' = [state EXCEPT ![c] = "closed"]
    /\ groups' = [groups EXCEPT ![c] = <<>>]
    /\ diag' = [diag EXCEPT ![c] = <<>>]
    /\ UNCHANGED <<user, inbox, pc, group_name, event, outbox, escaped,
                   store, received, published, listeners, probe>>

(* ---------------------------- receive_json ----------------------------- *)

\* A handler whose exception stops every consumer of the process.
FailAll(c, e) ==
    /\ escaped' = [escaped EXCEPT ![c] = e]
    /\ state' = [d \in Conns |-> "failed"]
    /\ pc' = [pc EXCEPT ![c] = "idle"]

\* A handler that raises ends the consumer's task: nothing more runs on it.
Fail(c, e) ==
    /\ escaped' = [escaped EXCEPT ![c] = e]
    /\ state' = [state EXCEPT ![c] = "failed"]
    /\ pc' = [pc EXCEPT ![c] = "idle"]

\* A test that calls for group_discard after every remove.
DiscardDueAlways(l, g) == TRUE

\* if group_name not in self.groups
DiscardDue(l, g) == ~InList(l, g)

\* A value guard that lets every value through.
NoValueNever(value) == FALSE

\* if value is None
NoValue(value) == value = JNull

\* receive_json up to its first await, or to its end when it has none.
ReceiveJson(c, frame) ==
    /\ state[c] = "open"
    /\ HandlerFree(c)
    /\ received + published < MaxInputs
    /\ received' = received + 1
    /\ LET model_label == frame.model
           prop == frame.property
           value == frame.value
           name == GetGroupName(model_label, value, prop)
       IN  IF model_label = JNull THEN
               /\ diag' = [diag EXCEPT ![c] = <<"[LIVE] No model">>]
               /\ UNCHANGED <<groups, group_name, pc, escaped, state>>
           ELSE IF NoValue(value) THEN
               /\ diag' = [diag EXCEPT ![c] =
                             <<"[LIVE] No value for prop " \o PyStr(prop) \o " found.">>]
               /\ UNCHANGED <<groups, group_name, pc, escaped, state>>
           ELSE IF ~frame.unsubscribe THEN
               /\ diag' = [diag EXCEPT ![c] = <<"[REST-LIVE] got subscription to " \o name>>]
               /\ groups' = [groups EXCEPT ![c] = ListAppend(@, name)]
               /\ group_name' = [group_name EXCEPT ![c] = name]
               /\ pc' = [pc EXCEPT ![c] = "group_add"]
               /\ UNCHANGED <<escaped, state>>
           ELSE IF ~InList(groups[c], name) THEN
               \* list.remove(x) raises ValueError when x is not in the list
               /\ diag' = [diag EXCEPT ![c] = <<"[REST-LIVE] got unsubscribe for " \o name>>]
               /\ Fail(c, "ValueError")
               /\ UNCHANGED <<groups, group_name>>
           ELSE IF ~DiscardDue(ListRemove(groups[c], name), name) THEN
               /\ diag' = [diag EXCEPT ![c] = <<"[REST-LIVE] got unsubscribe for " \o name>>]
               /\ groups' = [groups EXCEPT ![c] = ListRemove(@, name)]
               /\ UNCHANGED <<group_name, pc, escaped, state>>
           ELSE
               /\ diag' = [diag EXCEPT ![c] = <<"[REST-LIVE] got unsubscribe for " \o name>>]
               /\ groups' = [groups EXCEPT ![c] = ListRemove(@, name)]
               /\ group_name' = [group_name EXCEPT ![c] = name]
               /\ pc' = [pc EXCEPT ![c] = "group_discard"]
               /\ UNCHANGED <<escaped, state>>
    /\ UNCHANGED <<user, members, inbox, event, outbox, store, published, listeners, probe>>

\* await self.channel_layer.group_add(group_name, self.channel_name)
AwaitGroupAdd(c) ==
    /\ state[c] = "open"
    /\ pc[c] = "group_add"
    /\ members' = GroupAdd(members, group_name[c], c)
    /\ group_name' = [group_name EXCEPT ![c] = ""]
    /\ pc' = [pc EXCEPT ![c] = "idle"]
    /\ UNCHANGED <<state, user, groups, inbox, event, outbox, diag, escaped,
                   store, received, published, listeners, probe>>

\* await self.channel_layer.group_discard(group_name, self.channel_name)
AwaitGroupDiscard(c) ==
    /\ state[c] = "open"
    /\ pc[c] = "group_discard"
    /\ members' = GroupDiscard(members, group_name[c], c)
    /\ group_name' = [group_name EXCEPT ![c] = ""]
    /\ pc' = [pc EXCEPT ![c] = "idle"]
    /\ UNCHANGED <<state, user, groups, inbox, event, outbox, diag, escaped,
                   store, received, published, listeners, probe>>

(* -------------------------------- notify ------------------------------- *)

\* A send_json that wraps the payload in an envelope.
SendJsonEnveloped(box, payload) == Append(box, [type |-> "notify", content |-> payload])

\* A send_json that sends the payload twice.
SendJsonTwice(box, payload) == Append(Append(box, payload), payload)

\* await self.send_json(event["content"])
SendJson(box, payload) == Append(box, payload)

\* notify up to its await of does_have_permission, or to its end when the
\* check is missing or None.
Notify(c) ==
    /\ state[c] = "open"
    /\ HandlerFree(c)
    /\ inbox[c] # <<>>
    /\ inbox' = [inbox EXCEPT ![c] = Tail(@)]
    /\ LET ev == Head(inbox[c])
           model_label == ev.content.model
           found == GetPermissions(listeners, model_label, ev.group_key, ev.rank)
       IN  IF found.exc = "KeyError" THEN
               /\ diag' = [diag EXCEPT ![c] = <<"NO ENTRY -- ERROR">>]
               /\ UNCHANGED <<outbox, event, pc, escaped, state>>
           ELSE IF found.exc # "none" THEN
               /\ diag' = [diag EXCEPT ![c] = <<>>]
               /\ Fail(c, found.exc)
               /\ UNCHANGED <<outbox, event>>
           ELSE IF found.val = CheckNone THEN
               /\ diag' = [diag EXCEPT ![c] = <<"SENDING PAYLOAD -- CHECK NONE">>]
               /\ outbox' = [outbox EXCEPT ![c] = SendJson(@, ev.content)]
               /\ UNCHANGED <<event, pc, escaped, state>>
           ELSE
               /\ diag' = [diag EXCEPT ![c] = <<>>]
               /\ event' = [event EXCEPT ![c] = ev]
               /\ pc' = [pc EXCEPT ![c] = "permission"]
               /\ UNCHANGED <<outbox, escaped, state>>
    /\ UNCHANGED <<user, groups, members, group_name, store, received, published, listeners, probe>>

\* notify from the point where does_have_permission runs, on the store db,
\* to the handler's end.
NotifyResume(c, db) ==
    /\ state[c] = "open"
    /\ pc[c] = "permission"
    /\ event' = [event EXCEPT ![c] = NoEvent]
    /\ LET ev == event[c]
           check == GetPermissions(listeners, ev.content.model, ev.group_key, ev.rank).val
           has_permission ==
               DoesHavePermission(user[c], ev.content.model, ev.instance_pk, check, db)
       IN  IF has_permission.exc # "none" THEN
               /\ Fail(c, has_permission.exc)
               /\ UNCHANGED <<outbox, diag>>
           ELSE IF has_permission.val THEN
               /\ diag' = [diag EXCEPT ![c] = <<"SENDING PAYLOAD -- CHECK PASSED">>]
               /\ outbox' = [outbox EXCEPT ![c] = SendJson(@, ev.content)]
               /\ pc' = [pc EXCEPT ![c] = "idle"]
               /\ UNCHANGED <<escaped, state>>
           ELSE
               /\ diag' = [diag EXCEPT ![c] = <<"CHECK FAILED">>]
               /\ pc' = [pc EXCEPT ![c] = "idle"]
               /\ UNCHANGED <<outbox, escaped, state>>
    /\ UNCHANGED <<user, groups, members, inbox, group_name, store, received, published, listeners, probe>>

\* A notify that trusts the record as the event serialized it, instead of
\* fetching it.
AwaitPermissionStale(c) == NotifyResume(c, [pk \in PKs |-> event[c].content.owner])

\* does_have_permission runs in a worker thread while notify is suspended:
\* it reads the store as it is when it runs.
AwaitPermission(c) == NotifyResume(c, store)

(* ------------------- the record store and the producer ----------------- *)

\* Some other request saves the record with a new owner, or creates it.
SaveRecord(pk, owner) ==
    /\ store[pk] # owner
    /\ store' = [store EXCEPT ![pk] = owner]
    /\ UNCHANGED <<state, user, groups, members, inbox, pc, group_name,
                   event, outbox, diag, escaped, received, published, listeners, probe>>

\* Some other request deletes the record.
DeleteRecord(pk) ==
    /\ store[pk] # Missing
    /\ store' = [store EXCEPT ![pk] = Missing]
    /\ UNCHANGED <<state, user, groups, members, inbox, pc, group_name,
                   event, outbox, diag, escaped, received, published, listeners, probe>>

\* channel_layer.group_send: the message is put on the queue of every
\* channel that is in the group now.
GroupSend(boxes, layer, g, message) ==
    [c \in Conns |-> IF c \in GroupChannels(layer, g) THEN Append(boxes[c], message)
                     ELSE boxes[c]]

\* The change producer publishes the change of an existing record to the
\* group of (model label, group key, value of the key on the record).  A
\* message sent to a group without channels reaches no consumer and is
\* left out.
Publish(key, pk) ==
    /\ received + published < MaxInputs
    /\ store[pk] # Missing
    /\ GroupChannels(members, GetGroupName(JStr(key[1]), JInt(pk), JStr(key[2]))) # {}
    /\ published' = published + 1
    /\ inbox' = GroupSend(inbox, members,
                          GetGroupName(JStr(key[1]), JInt(pk), JStr(key[2])),
                          MakeEvent(key[1], key[2], key[3], pk, store[pk], published + 1))
    /\ UNCHANGED <<state, user, groups, members, pc, group_name, event,
                   outbox, diag, escaped, store, received, listeners, probe>>

(* --------------------------- the specification ------------------------- *)

Next ==
    \/ \E c \in Conns : Connect(c)
    \/ \E c \in Conns : \E frame \in Frames : ReceiveJson(c, frame)
    \/ \E c \in Conns : AwaitGroupAdd(c)
    \/ \E c \in Conns : AwaitGroupDiscard(c)
    \/ \E c \in Conns : Notify(c)
    \/ \E c \in Conns : AwaitPermission(c)
    \/ \E c \in Conns : Disconnect(c)
    \/ \E pk \in PKs : \E owner \in Owners : SaveRecord(pk, owner)
    \/ \E pk \in PKs : DeleteRecord(pk)
    \/ \E key \in EventKeys : \E pk \in PKs : Publish(key, pk)

Spec == Init /\ [][Next]_vars

\* Each consumer is a task of its own that the event loop keeps running:
\* a handler that can go on does go on, whatever the other consumers do.
ConsumerFair(c) ==
    /\ WF_vars(Notify(c))
    /\ WF_vars(AwaitPermission(c))
    /\ WF_vars(AwaitGroupAdd(c))
    /\ WF_vars(AwaitGroupDiscard(c))

FairSpec == Init /\ [][Next]_vars /\ \A c \in Conns : ConsumerFair(c)

(* ---------------------- get_group_name on its own ---------------------- *)

\* (model label, key property, value) arguments: labels and properties
\* with and without a "-", and the values a JSON frame or a primary key
\* can carry.
NameArgs ==
    { <<m, p, v>> :
        m \in {JStr("app.Order"), JStr("app.Order-line")},
        p \in {JStr("id"), JStr("line-id")},
        v \in {JInt(1), JStr("1"), JInt(12)} }

\* Two argument triples are picked; nothing else runs.
NameInit ==
    /\ state = [c \in Conns |-> "new"]
    /\ user = [c \in Conns |-> NoUser]
    /\ groups = [c \in Conns |-> <<>>]
    /\ members = {}
    /\ inbox = [c \in Conns |-> <<>>]
    /\ pc = [c \in Conns |-> "idle"]
    /\ group_name = [c \in Conns |-> ""]
    /\ event = [c \in Conns |-> NoEvent]
    /\ outbox = [c \in Conns |-> <<>>]
    /\ diag = [c \in Conns |-> <<>>]
    /\ escaped = [c \in Conns |-> "none"]
    /\ store = [pk \in PKs |-> Missing]
    /\ received = 0
    /\ published = 0
    /\ listeners = <<>>
    /\ probe \in [a : NameArgs, b : NameArgs, names : {<<>>}]

\* get_group_name is called on each of the two triples.
CallGetGroupName ==
    /\ probe.names = <<>>
    /\ probe' = [probe EXCEPT !.names =
                    << GetGroupName(probe.a[1], probe.a[3], probe.a[2]),
                       GetGroupName(probe.b[1], probe.b[3], probe.b[2]) >>]
    /\ UNCHANGED <<state, user, groups, members, inbox, pc, group_name, event,
                   outbox, diag, escaped, store, received, published, listeners>>

NameNext == CallGetGroupName

NameSpec == NameInit /\ [][NameNext]_vars

(* ------------------------------ properties ----------------------------- *)

\* The event a connection's notify is handling: the one at the head of
\* its queue, or the one it is suspended on.  HasEntry and RegisteredCheck
\* read the registry for an event.
Handling(c) == IF pc[c] = "permission" THEN event[c] ELSE Head(inbox[c])

HasEntry(ev) ==
    /\ ev.content.model \in DOMAIN listeners
    /\ ev.group_key \in DOMAIN listeners[ev.content.model]
    /\ ev.rank + 1 <= Len(listeners[ev.content.model][ev.group_key])

RegisteredCheck(ev) == listeners[ev.content.model][ev.group_key][ev.rank + 1][2]

\* Both registered checks, when they answer, answer whether the record's
\* owner is the principal.
Grants(u, owner) == owner # Missing /\ owner = u

Denies(check, u, owner) ==
    /\ owner # Missing
    /\ owner # u
    /\ check = OwnerNamed => owner # NoOwner

\* C1: a payload goes to a connection for an event whose registered check
\* is not None only in the step where does_have_permission has run, and
\* only if the record, as the store holds it in that very step (not as it
\* was when the connection subscribed or when the event was made), is
\* owned by the connection's principal.
C1_CheckedAtDelivery ==
    [][\A c \in Conns :
          (outbox'[c] # outbox[c] /\ HasEntry(Handling(c))
              /\ RegisteredCheck(Handling(c)) # CheckNone)
          => /\ pc[c] = "permission"
             /\ Grants(user[c], store[event[c].instance_pk])
             /\ outbox'[c] = Append(outbox[c], event[c].content)]_vars

\* C1 witness: c1 was sent a record it owned, the record then changed
\* hands, and a later event ended in a failed check.
C1_Witness ==
    /\ Len(outbox["c1"]) = 1
    /\ outbox["c1"][1].owner = "alice"
    /\ outbox["c1"][1].rev = 1
    /\ published = 2
    /\ diag["c1"] = <<"CHECK FAILED">>
    /\ store[1] = NoOwner

\* C2: when notify resumes on an event whose registered check answers
\* false on the store of that step, it sends nothing, prints CHECK FAILED,
\* ends, and the event is gone from the connection's queue.
C2_DeniedSendsNothing ==
    [][\A c \in Conns :
          (AwaitPermission(c)
              /\ Denies(RegisteredCheck(event[c]), user[c], store[event[c].instance_pk]))
          => /\ outbox'[c] = outbox[c]
             /\ diag'[c] = <<"CHECK FAILED">>
             /\ pc'[c] = "idle"
             /\ state'[c] = "open"
             /\ \A i \in DOMAIN inbox'[c] : inbox'[c][i] # event[c]]_vars

\* C2 witness: an event for a record owned by someone else has been
\* handled on c2 and nothing was sent.
C2_Witness ==
    /\ diag["c2"] = <<"CHECK FAILED">>
    /\ outbox["c2"] = <<>>
    /\ pc["c2"] = "idle"
    /\ store[1] = "alice"

\* C3: when the registered check is None, notify sends event.content,
\* unchanged, in the step that takes the event, whatever the store holds
\* (even a deleted record), and ends without suspending.
C3_NoneForwards ==
    [][\A c \in Conns :
          (Notify(c) /\ HasEntry(Head(inbox[c]))
              /\ RegisteredCheck(Head(inbox[c])) = CheckNone)
          => /\ outbox'[c] = Append(outbox[c], Head(inbox[c]).content)
             /\ pc'[c] = "idle"
             /\ state'[c] = "open"
             /\ escaped'[c] = "none"]_vars

\* C3 witness: both members of the group were sent the same payload by
\* the None branch.
C3_Witness ==
    /\ diag["c1"] = <<"SENDING PAYLOAD -- CHECK NONE">>
    /\ diag["c2"] = <<"SENDING PAYLOAD -- CHECK NONE">>
    /\ Len(outbox["c1"]) = 1
    /\ outbox["c2"] = outbox["c1"]
    /\ outbox["c1"][1].model = "app.Order"

\* What a handler step on c leaves alone on the other connections.
OthersUntouched(c) ==
    \A d \in Conns \ {c} :
        /\ outbox'[d] = outbox[d]
        /\ inbox'[d] = inbox[d]
        /\ state'[d] = state[d]
        /\ escaped'[d] = escaped[d]
        /\ groups'[d] = groups[d]

\* C4: when the registry has no entry for the event's (model, group key,
\* rank), whichever of the three lookups misses, notify prints exactly one
\* diagnostic, sends nothing, raises nothing, stays open and leaves the
\* other connections alone.
C4_RegistryMissDropped ==
    [][\A c \in Conns :
          (Notify(c) /\ ~HasEntry(Head(inbox[c])))
          => /\ Len(diag'[c]) = 1
             /\ outbox'[c] = outbox[c]
             /\ escaped'[c] = "none"
             /\ state'[c] = "open"
             /\ pc'[c] = "idle"
             /\ OthersUntouched(c)]_vars

\* C5: when the record is gone from the store as notify fetches it, notify
\* sends nothing, no exception leaves the handler, and the connection stays
\* open with its subscriptions.
C5_RecordGoneIsDenied ==
    [][\A c \in Conns :
          (AwaitPermission(c) /\ store[event[c].instance_pk] = Missing)
          => /\ outbox'[c] = outbox[c]
             /\ escaped'[c] = "none"
             /\ state'[c] = "open"
             /\ groups'[c] = groups[c]
             /\ members' = members]_vars

\* C6: when the registered check itself raises, notify sends nothing,
\* prints a diagnostic, and the exception neither leaves the handler nor
\* ends the connection.
C6_CheckFaultIsDenied ==
    [][\A c \in Conns :
          (/\ AwaitPermission(c)
           /\ store[event[c].instance_pk] = NoOwner
           /\ RegisteredCheck(event[c]) = OwnerNamed)
          => /\ outbox'[c] = outbox[c]
             /\ Len(diag'[c]) >= 1
             /\ escaped'[c] = "none"
             /\ state'[c] = "open"]_vars

\* C7: a connection between frames whose record holds a group twice or
\* more (it subscribed to it at least twice) is in that group of the
\* channel layer exactly once.
C7_OneMembership ==
    \A c \in Conns : \A i \in DOMAIN groups[c] :
        (state[c] = "open" /\ pc[c] = "idle" /\ Count(groups[c], groups[c][i]) >= 2)
        => Cardinality({m \in members : m = <<groups[c][i], c>>}) = 1

\* C7 witness: c1 has subscribed twice to the same group and is idle.
C7_Witness ==
    /\ state["c1"] = "open"
    /\ pc["c1"] = "idle"
    /\ groups["c1"] = <<"RESOURCE-app.Order-id-1", "RESOURCE-app.Order-id-1">>
    /\ <<"RESOURCE-app.Order-id-1", "c1">> \in members

\* A frame with all three fields, and a frame for which receive_json
\* forms a group name (it has a model and a value).
Complete(frame) == frame.model # JNull /\ frame.property # JNull /\ frame.value # JNull

Named(frame) == frame.model # JNull /\ frame.value # JNull

FrameGroup(frame) == GetGroupName(frame.model, frame.value, frame.property)

\* C8 as stated: the record never holds a group twice.
C8_NoDuplicates ==
    \A c \in Conns : \A g \in {groups[c][i] : i \in DOMAIN groups[c]} :
        Count(groups[c], g) <= 1

\* C8 as amended: the record is a list with repetitions.  Every subscribe
\* frame appends one occurrence of its group to the record, also when the
\* record holds the group already, and touches no other entry.
C8_SubscribeAppends ==
    [][\A c \in Conns : \A frame \in Frames :
          (/\ received' = received + 1
           /\ Named(frame)
           /\ ~frame.unsubscribe
           /\ ReceiveJson(c, frame))
          => /\ groups'[c] = Append(groups[c], FrameGroup(frame))
             /\ Count(groups'[c], FrameGroup(frame))
                    = Count(groups[c], FrameGroup(frame)) + 1]_vars

\* C8 witness: a record that holds one group three times.
C8_Witness ==
    \E c \in Conns : Len(groups[c]) = 3 /\ Count(groups[c], groups[c][1]) = 3

\* C9: an unsubscribe frame for a group the record does not hold raises
\* nothing, calls the channel layer for nothing, and changes neither the
\* record, nor the layer's groups, nor the connection's state.
C9_UnsubscribeAbsentNoOp ==
    [][\A c \in Conns : \A frame \in Frames :
          (/\ received' = received + 1
           /\ Complete(frame)
           /\ frame.unsubscribe
           /\ ~InList(groups[c], FrameGroup(frame))
           /\ ReceiveJson(c, frame))
          => /\ escaped'[c] = "none"
             /\ state'[c] = "open"
             /\ pc'[c] = "idle"
             /\ groups' = groups
             /\ members' = members]_vars

\* The step in which connection c, a member of the frame's group, takes
\* an unsubscribe frame.
UnsubscribeTaken(c, frame) ==
    /\ received' = received + 1
    /\ Named(frame)
    /\ frame.unsubscribe
    /\ <<FrameGroup(frame), c>> \in members
    /\ ReceiveJson(c, frame)

\* C10 as stated: every unsubscribe for a group the connection is a member
\* of takes the group out of the record and goes on to leave the group.
C10_UnsubscribeLeaves ==
    [][\A c \in Conns : \A frame \in Frames :
          (UnsubscribeTaken(c, frame) /\ Complete(frame))
          => /\ ~InList(groups'[c], FrameGroup(frame))
             /\ pc'[c] = "group_discard"
             /\ group_name'[c] = FrameGroup(frame)]_vars

\* C10 as amended: an unsubscribe for a group the connection is a member
\* of takes one occurrence of the group out of the record.  When that was
\* the only occurrence the handler goes on to group_discard, after which
\* the connection is no member of the group; when the record held the
\* group more than once the group stays in the record and the connection
\* stays a member.
C10_UnsubscribeCounts ==
    [][\A c \in Conns :
          /\ \A frame \in Frames :
                UnsubscribeTaken(c, frame)
                => /\ Count(groups'[c], FrameGroup(frame))
                          = Count(groups[c], FrameGroup(frame)) - 1
                   /\ IF Count(groups[c], FrameGroup(frame)) = 1
                      THEN /\ ~InList(groups'[c], FrameGroup(frame))
                           /\ pc'[c] = "group_discard"
                           /\ group_name'[c] = FrameGroup(frame)
                      ELSE /\ InList(groups'[c], FrameGroup(frame))
                           /\ pc'[c] = "idle"
                           /\ members' = members
          /\ AwaitGroupDiscard(c)
                => /\ <<group_name[c], c>> \notin members'
                   /\ ~InList(groups'[c], group_name[c])]_vars

\* C10 witness: c1 subscribed once, unsubscribed, and the discard is done:
\* its record is empty and it is in no group.
C10_Witness ==
    /\ diag["c1"] = <<"[REST-LIVE] got unsubscribe for RESOURCE-app.Order-id-1">>
    /\ state["c1"] = "open"
    /\ pc["c1"] = "idle"
    /\ groups["c1"] = <<>>
    /\ \A m \in members : m[2] # "c1"

\* C11: once a connection has closed, by the client's close or by the end
\* of its consumer, it is in no fabric group, whatever subscribe and
\* unsubscribe frames it handled before; from then on no published event
\* is put on its queue, no notify runs on it, nothing is sent to it and
\* nothing is raised on it.
C11_ClosedLeavesGroups ==
    [][\A c \in Conns :
          state'[c] \in {"closed", "failed"}
          => /\ MembershipsOf(members', c) = {}
             /\ state[c] \in {"closed", "failed"}
                => /\ inbox'[c] = inbox[c]
                   /\ outbox'[c] = outbox[c]
                   /\ escaped'[c] = escaped[c]]_vars

\* A frame that lacks one of model, property and value.
Lacking(frame) == \E k \in {"model", "property", "value"} : frame[k] = JNull

\* C12: receive_json rejects a frame that lacks any one of model, property
\* and value: no group name is formed, self.groups and the fabric stay as
\* they are, no fabric call is pending, a diagnostic is printed, and the
\* connection stays open with nothing raised.
C12_LackingRejected ==
    [][\A c \in Conns : \A frame \in Frames :
          (/\ received' = received + 1
           /\ Lacking(frame)
           /\ ReceiveJson(c, frame))
          => /\ groups' = groups
             /\ members' = members
             /\ group_name'[c] = ""
             /\ pc'[c] = "idle"
             /\ diag'[c] # <<>>
             /\ state'[c] = "open"
             /\ escaped'[c] = "none"]_vars

\* The group names a frame without a value would form: the catch-all
\* names of a (model, property) pair.
CatchAllNames ==
    { GetGroupName(f.model, JNull, f.property) : f \in {g \in Contents : g.model # JNull} }

\* C13: a frame whose value is absent or null forms no group: the handler
\* ends in the step that takes the frame, with no group name computed, the
\* record and the fabric as they were and no fabric call pending; and no
\* catch-all name is ever in a record, in a pending fabric call or in the
\* fabric.
C13_NoCatchAllGroup ==
    [][\A c \in Conns :
          /\ \A frame \in Frames :
                (/\ received' = received + 1
                 /\ frame.value = JNull
                 /\ ReceiveJson(c, frame))
                => /\ groups' = groups
                   /\ members' = members
                   /\ group_name'[c] = ""
                   /\ pc'[c] = "idle"
          /\ group_name'[c] \notin CatchAllNames
          /\ \A n \in CatchAllNames :
                ~InList(groups'[c], n) /\ <<n, c>> \notin members']_vars

\* C13 witness: c1 was sent a frame with model and property and no value;
\* it is open and idle with an empty record, in no group.
C13_Witness ==
    /\ diag["c1"] = <<"[LIVE] No value for prop id found.">>
    /\ state["c1"] = "open"
    /\ pc["c1"] = "idle"
    /\ groups["c1"] = <<>>
    /\ \A m \in members : m[2] # "c1"

\* C14: get_group_name maps the same arguments to the same name and
\* distinct arguments to distinct names, also when a model label, a
\* property or a value holds a "-".
C14_NameInjective ==
    probe.names # <<>>
    => /\ probe.a = probe.b => probe.names[1] = probe.names[2]
       /\ probe.a # probe.b => probe.names[1] # probe.names[2]

\* C15: the payloads sent to one connection are in the order in which
\* their events were published: rev numbers the publications, and on
\* every connection a payload sent earlier has the smaller rev.
C15_SentInPublishOrder ==
    \A c \in Conns : \A i, j \in DOMAIN outbox[c] :
        i < j => outbox[c][i].rev < outbox[c][j].rev

\* C15 witness: c1 was sent the payloads of two events, the second one
\* after a notify that was suspended on the permission check.
C15_Witness ==
    /\ Len(outbox["c1"]) = 2
    /\ outbox["c1"][1].rev = 1
    /\ outbox["c1"][2].rev = 2
    /\ diag["c1"] = <<"SENDING PAYLOAD -- CHECK PASSED">>

\* The payload of the event numbered rev was sent to connection c.
Sent(c, rev) == \E i \in DOMAIN outbox[c] : outbox[c][i].rev = rev

\* Connection c came to an end of its own: a handler of its own raised,
\* or it closed.
OwnEnd(c) == escaped[c] # "none" \/ state[c] = "closed"

\* Connection c has no event left to handle: its queue is empty and no
\* notify of it is suspended.
Drained(c) == inbox[c] = <<>> /\ pc[c] # "permission"

\* C16: in a fan-out, what happens at one member does not hold up or fail
\* another.  Under fair scheduling of the consumers, every member again
\* and again has handled every event put on its queue, unless that member
\* itself came to an end by its own exception or its own close; and the
\* notify of a member that handles an event with a None check, or whose
\* check grants on the record as stored, sends the payload to that
\* member.  The outcome at any other member is no excuse.
C16_FanOutIndependent ==
    /\ \A c \in Conns : []<>(Drained(c) \/ OwnEnd(c))
    /\ [][\A c \in Conns :
             /\ (Notify(c) /\ HasEntry(Head(inbox[c]))
                     /\ RegisteredCheck(Head(inbox[c])) = CheckNone)
                => \E i \in DOMAIN outbox'[c] :
                       outbox'[c][i].rev = Head(inbox[c]).content.rev
             /\ (AwaitPermission(c) /\ RegisteredCheck(event[c]) = IsOwner
                     /\ Grants(user[c], store[event[c].instance_pk]))
                => \E i \in DOMAIN outbox'[c] :
                       outbox'[c][i].rev = event[c].content.rev]_vars

\* C16 witness: one event went to both members; c2's notify raised on it
\* and c1 was sent the payload.
C16_Witness ==
    /\ escaped["c2"] # "none"
    /\ state["c1"] = "open"
    /\ published = 1
    /\ received = 2
    /\ ~Sent("c2", 1)
    /\ Sent("c1", 1)

\* The places where the event numbered rev is for connection c: positions
\* of its queue, the notify it is suspended in, positions of what was
\* sent to it.
Copies(c, rev) ==
    Cardinality({i \in DOMAIN inbox[c] : inbox[c][i].content.rev = rev})
    + (IF pc[c] = "permission" /\ event[c].content.rev = rev THEN 1 ELSE 0)
    + Cardinality({i \in DOMAIN outbox[c] : outbox[c][i].rev = rev})

\* C17: delivery is at most once.  For every published event and every
\* connection there is at most one copy of the event between the
\* connection's queue, its suspended notify and the payloads sent to it,
\* so the payload is sent to the connection at most one time, however
\* many times the connection subscribed to the group and whichever branch
\* of notify sends.
C17_AtMostOnce ==
    \A c \in Conns : \A rev \in 1..MaxInputs : Copies(c, rev) <= 1

\* C17 witness: c1 holds the order's group twice in its record and was
\* sent the payload of the one published event once.
C17_Witness ==
    /\ Count(groups["c1"], "RESOURCE-app.Order-id-1") = 2
    /\ pc["c1"] = "idle"
    /\ published = 1
    /\ Len(outbox["c1"]) = 1
    /\ inbox["c1"] = <<>>

\* A step of one of connection a's own handlers: a client frame taken, a
\* change event taken, a handler resumed, or its close.
HandlerStep(a) ==
    \/ \E frame \in Frames : ReceiveJson(a, frame)
    \/ AwaitGroupAdd(a)
    \/ AwaitGroupDiscard(a)
    \/ Notify(a)
    \/ AwaitPermission(a)
    \/ Disconnect(a)

\* C18: a step of a handler of connection a, whatever frame or event it
\* handles, leaves the record and the fabric memberships of every other
\* connection b as they were: a step that changes b's record or b's
\* memberships is no step of a handler of a.
C18_OthersRecordUnchanged ==
    [][\A a \in Conns : \A b \in Conns \ {a} :
          (\/ groups'[b] # groups[b]
           \/ MembershipsOf(members', b) # MembershipsOf(members, b))
          => ~HandlerStep(a)]_vars

\* C18 witness: c1 and c2 joined the same group and c1 has left it again;
\* c2 still holds the group in its record and is still a member.
C18_Witness ==
    /\ diag["c1"] = <<"[REST-LIVE] got unsubscribe for RESOURCE-app.Order-id-1">>
    /\ pc["c1"] = "idle"
    /\ state["c1"] = "open"
    /\ MembershipsOf(members, "c1") = {}
    /\ groups["c2"] = <<"RESOURCE-app.Order-id-1">>
    /\ MembershipsOf(members, "c2") = {<<"RESOURCE-app.Order-id-1", "c2">>}

\* The groups of a record, and the groups a connection is a member of.
RecordGroups(c) == {groups[c][i] : i \in DOMAIN groups[c]}

FabricGroups(c) == {m[1] : m \in MembershipsOf(members, c)}

\* C19: while a connection is open and no receive_json of it is between
\* its change of the record and the fabric call that goes with it, the
\* connection is a member of a group exactly when its record holds the
\* group at least once.
C19_RecordMatchesFabric ==
    \A c \in Conns :
        (state[c] = "open" /\ pc[c] \notin {"group_add", "group_discard"})
        => FabricGroups(c) = RecordGroups(c)

\* C19 witness: c1 subscribed to the order's group twice and was then sent
\* a frame without a model; its record holds the group and it is a member.
C19_Witness ==
    /\ state["c1"] = "open"
    /\ pc["c1"] = "idle"
    /\ received = 3
    /\ diag["c1"] = <<"[LIVE] No model">>
    /\ Count(groups["c1"], "RESOURCE-app.Order-id-1") = 2
    /\ FabricGroups("c1") = {"RESOURCE-app.Order-id-1"}

\* C20: unsubscribe counts references.  An unsubscribe for a group that
\* the record holds k times leaves it there k - 1 times; while that is
\* above zero no group_discard is called and the connection stays a
\* member, and the unsubscribe that takes the last occurrence out is the
\* one that goes on to group_discard.  An open connection leaves a group
\* only by that call.
C20_ReferenceCounted ==
    [][\A c \in Conns :
          /\ \A frame \in Frames :
                (/\ received' = received + 1
                 /\ Named(frame)
                 /\ frame.unsubscribe
                 /\ InList(groups[c], FrameGroup(frame))
                 /\ ReceiveJson(c, frame))
                => /\ Count(groups'[c], FrameGroup(frame))
                          = Count(groups[c], FrameGroup(frame)) - 1
                   /\ pc'[c] = "group_discard"
                          <=> Count(groups'[c], FrameGroup(frame)) = 0
                   /\ pc'[c] # "group_discard"
                          => /\ pc'[c] = "idle"
                             /\ MembershipsOf(members', c) = MembershipsOf(members, c)
          /\ (state'[c] = "open" /\ MembershipsOf(members, c) \ MembershipsOf(members', c) # {})
                => /\ AwaitGroupDiscard(c)
                   /\ Count(groups[c], group_name[c]) = 0
                   /\ MembershipsOf(members, c) \ MembershipsOf(members', c)
                          = {<<group_name[c], c>>}]_vars

\* C20 witness: c1 subscribed to the order's group twice and unsubscribed
\* once: the record holds the group once, no group_discard is pending and
\* c1 is a member.
C20_Witness ==
    /\ diag["c1"] = <<"[REST-LIVE] got unsubscribe for RESOURCE-app.Order-id-1">>
    /\ received = 3
    /\ state["c1"] = "open"
    /\ pc["c1"] = "idle"
    /\ groups["c1"] = <<"RESOURCE-app.Order-id-1">>
    /\ <<"RESOURCE-app.Order-id-1", "c1">> \in members
    /\ groups["c2"] = <<>>

====
